---- MODULE Spec2Model ----
(***************************************************************************)
(* Model of libparam: template class Param<T> (src/param/param.hpp), which *)
(* keeps a record T in RAM (data) and persists it in the Arduino EEPROM at *)
(* a start address, followed by one CRC byte.                              *)
(*                                                                         *)
(* T is modelled as SizeofT raw bytes.  The EEPROM is a function from     *)
(* byte offsets to bytes.  crc8 (generic/crc8.hpp) is not part of the      *)
(* sources; it is modelled as a bitwise CRC-8.                             *)
(***************************************************************************)
EXTENDS Integers, Sequences, FiniteSets, TLC

VARIABLES EEPROM, addr, data, arg, hist, win, wpos, snap, wlog

vars == <<EEPROM, addr, data, arg, hist, win, wpos, snap, wlog>>

----------------------------------------------------------------------------
(* Sizes and bounds *)

\* sizeof(T): number of payload bytes of the record type
SizeofT == 3

\* number of most recent calls remembered in hist
Window == 3

\* uint8_t addr: the address member holds values 0 .. AddrRange-1
AddrRange == 256

\* uint8_t: a byte holds values 0 .. ByteRange-1
ByteRange == 256

\* sizeof(uint8_t)
SizeofUint8 == 1

\* generator polynomial of the modelled CRC-8 (x^8 + x^2 + x + 1)
CrcPoly == 7

\* start value of the modelled CRC-8
CrcInit == 0

----------------------------------------------------------------------------
(* Bytes *)

RECURSIVE Xor(_, _)
\* bitwise exclusive or of two naturals
Xor(a, b) ==
    IF a = 0 THEN b
    ELSE IF b = 0 THEN a
    ELSE (((a % 2) + (b % 2)) % 2) + 2 * Xor(a \div 2, b \div 2)

\* the C operator ! in the place of ~
LogicalNot(x) == IF x = 0 THEN 1 ELSE 0

\* the C operator ~ on an int (the uint8_t operand is promoted to int)
Not(x) == -x - 1

\* conversion of an int to uint8_t (parameter uint8_t val of EEPROM.write)
ToUint8(v) == v % ByteRange

\* conversion of the constructor argument to uint8_t _addr
ToAddr(A) == A % AddrRange

RECURSIVE CrcShift(_, _)
\* n shift steps of the CRC register c, most significant bit first
CrcShift(c, n) ==
    IF n = 0 THEN c
    ELSE CrcShift(IF c >= 128 THEN Xor((2 * c) % ByteRange, CrcPoly)
                              ELSE (2 * c) % ByteRange, n - 1)

RECURSIVE CrcFrom(_, _, _)
\* the CRC register after bytes k .. Len(bytes) of bytes, starting from c
CrcFrom(c, bytes, k) ==
    IF k > Len(bytes) THEN c
    ELSE CrcFrom(CrcShift(Xor(c, bytes[k]), 8), bytes, k + 1)

\* crc8::calc(&data, sizeof(data))
crc8(bytes) == CrcFrom(CrcInit, bytes, 1)

----------------------------------------------------------------------------
(* The record and the medium *)

\* size without the CRC byte
size_payload == SizeofT

\* Param::size
size == SizeofT + SizeofUint8

\* memset(&data, 0, sizeof(T))
Zero == [k \in 1..SizeofT |-> 0]

\* a payload whose first two bytes are the generator polynomial x^8+x^2+x+1
PolyLow == [k \in 1..SizeofT |-> IF k = 1 THEN 1 ELSE IF k = 2 THEN 7 ELSE 0]

\* the same payload with another last byte
PolyHigh == [PolyLow EXCEPT ![SizeofT] = 1]

\* payloads the caller assigns to the public member data
Payloads == {Zero, PolyLow}

\* payloads the caller assigns where a write can be cut short
CrashPayloads == {Zero, PolyLow, PolyHigh}

\* arguments passed to the constructor: two records laid out back to back
AddrArgs == {0, size}

\* arguments passed to the constructor, beyond the range of uint8_t too
WideArgs == {0, size, AddrRange}

\* bits of a byte
Bits == 0..7

\* byte offsets of the medium that the model keeps: room for two records
\* and one more byte from offset 0, and for one record and one more byte
\* from offset AddrRange
Cells ==
    (0 .. 2 * (SizeofT + 1)) \cup (AddrRange .. AddrRange + SizeofT + 1)

\* contents of a medium never written by the component
InitFill == {0, 255}

\* EEPROM.get(a, data): the sizeof(T) bytes at a .. a+sizeof(T)-1
EEPROM_get(mem, a) == [k \in 1..SizeofT |-> mem[a + k - 1]]

\* EEPROM.write(idx, val) of one byte
EEPROM_write(mem, idx, val) == [mem EXCEPT ![idx] = ToUint8(val)]

RECURSIVE EEPROM_putn(_, _, _, _)
\* EEPROM.put(a, d), bytes k .. sizeof(T), one byte after the other
EEPROM_putn(mem, a, d, k) ==
    IF k > SizeofT THEN mem
    ELSE EEPROM_putn(EEPROM_write(mem, a + k - 1, d[k]), a, d, k + 1)

\* EEPROM.put that leaves the first byte of the record as it was
EEPROM_put_tail(mem, a, d) == EEPROM_putn(mem, a, d, 2)

\* EEPROM.put(a, d)
EEPROM_put(mem, a, d) == EEPROM_putn(mem, a, d, 1)

\* offset of the CRC byte: addr + sizeof(data)
CrcAt(a) == a + SizeofT

\* the offsets an instance at address a occupies: payload and CRC byte
Range(a) == a .. CrcAt(a)

\* the bytes stored from the last to the first
PutIndex_down(k) == SizeofT + 1 - k

\* the order in which EEPROM.put stores the bytes: the k-th store is byte k
PutIndex(k) == k

----------------------------------------------------------------------------
(* The methods of Param<T> as functions of the medium and the working copy *)

\* clear that leaves the working copy as it is
clear_data_keep(d) == d

\* clear: the working copy afterwards
clear_data(d) == Zero

\* clear that zeroes the stored payload too
clear_mem_zero(mem, a) == EEPROM_put(mem, a, Zero)

\* clear: the medium afterwards (clear makes no EEPROM call)
clear_mem(mem, a) == mem

\* read that checks the CRC of the working copy without loading it
read_data_keep(mem, a, d) == d

\* read: the working copy afterwards (EEPROM.get(addr, data))
read_data(mem, a, d) == EEPROM_get(mem, a)

\* read that computes the CRC of the working copy before it loads it
read_ret_early(mem, a, d) == crc8(d) = mem[CrcAt(a)]

\* read that takes the byte before the CRC byte for the stored CRC
read_ret_off(mem, a, d) ==
    crc8(read_data(mem, a, d)) = mem[CrcAt(a) - 1]

\* read: the return value
read_ret(mem, a, d) == crc8(read_data(mem, a, d)) = mem[CrcAt(a)]

\* write that stores a terminating zero byte after the CRC byte
write_mem_wide(mem, a, d) ==
    EEPROM_write(EEPROM_write(EEPROM_put(mem, a, d), CrcAt(a), crc8(d)),
                 CrcAt(a) + 1, 0)

\* write that stores the payload without the CRC byte
write_mem_nocrc(mem, a, d) == EEPROM_put(mem, a, d)

\* write: the medium afterwards
write_mem(mem, a, d) == EEPROM_write(EEPROM_put(mem, a, d), CrcAt(a), crc8(d))

\* discard that inverts the last payload byte in the place of the CRC byte
discard_mem_last(mem, a) ==
    EEPROM_write(mem, CrcAt(a) - 1, Not(mem[CrcAt(a) - 1]))

\* discard that stores zero over the CRC byte
discard_mem_zero(mem, a) == EEPROM_write(mem, CrcAt(a), 0)

\* discard that stores the CRC byte back as it read it
discard_mem_same(mem, a) == EEPROM_write(mem, CrcAt(a), mem[CrcAt(a)])

\* discard: the medium afterwards
discard_mem(mem, a) == EEPROM_write(mem, CrcAt(a), Not(mem[CrcAt(a)]))

----------------------------------------------------------------------------
(* History of calls (ghost state): hist holds the last win calls, and    *)
(* wlog[i] whether instance i has made a write, the payload of its most   *)
(* recent write and whether it made an odd number of discards since, for  *)
(* the instances a specification records the writes of                    *)

ids == DOMAIN addr

\* the record at address a as the medium holds it
Stored(mem, a) == [pay |-> EEPROM_get(mem, a), sum |-> mem[CrcAt(a)]]

\* the entry of a call op of instance i that returned r, made in this step:
\* the working copy after the call and the stored record before it
Entry(op, i, r) ==
    [op |-> op, id |-> i, addr |-> addr'[i], ret |-> r, data |-> data'[i],
     pre |-> Stored(EEPROM, addr'[i])]

\* h with entry e appended, the oldest entry dropped when the window is full;
\* assignments to data that follow each other count as one assignment
Push(h, e) ==
    IF Len(h) > 0 /\ e.op = "set" /\ h[Len(h)].op = "set" /\ h[Len(h)].id = e.id
    THEN [h EXCEPT ![Len(h)] = e]
    ELSE IF Len(h) < win THEN Append(h, e) ELSE Append(Tail(h), e)

Log(op, i, r) == hist' = Push(hist, Entry(op, i, r))

\* the n-th most recent call (1 = the last one)
H(n) == hist[Len(hist) + 1 - n]

\* the last n calls were ops[1], ..., ops[n], in this order
Last(ops) ==
    /\ Len(hist) >= Len(ops)
    /\ \A n \in 1..Len(ops) : H(Len(ops) + 1 - n).op = ops[n]

\* the last n calls were made on the same address
SameAddr(n) == \A m \in 1..n : H(m).addr = H(1).addr

\* the last n calls were made by the same instance
SameId(n) == \A m \in 1..n : H(m).id = H(1).id /\ H(m).addr = H(1).addr

\* value of wlog[i] while instance i has made no write
NoWrite == [any |-> FALSE, pay |-> Zero, odd |-> FALSE]

\* value of wlog[i] after a write of payload v by instance i
Wrote(v) == [any |-> TRUE, pay |-> v, odd |-> FALSE]

\* value of wlog[i] after a discard by instance i
Discarded(w) == IF w.any THEN [w EXCEPT !.odd = ~w.odd] ELSE w

\* wlog with w for instance i, if the writes of instance i are recorded
Track(i, w) == IF i \in DOMAIN wlog THEN [wlog EXCEPT ![i] = w] ELSE wlog

\* value of snap when no write is in progress
NoSnap == [pay |-> Zero, sum |-> 0]

----------------------------------------------------------------------------
(* Initial states: the instances I are constructed with arguments from    *)
(* Args, the medium holds what it held before the program started, the   *)
(* history window is w and the writes of the instances J are recorded     *)

InitMedium(f, s) == [c \in Cells |-> IF c = CrcAt(0) THEN s ELSE f]

InitFor(I, w, Args, J) ==
    /\ \E f \in InitFill :
         \E s \in InitFill \cup {crc8([k \in 1..SizeofT |-> f])} :
            EEPROM = InitMedium(f, s)
    /\ arg \in [I -> Args]
    /\ addr = [i \in I |-> ToAddr(arg[i])]
    /\ data = [i \in I |-> clear_data(Zero)]
    /\ hist = <<>>
    /\ win = w
    /\ wpos = 0
    /\ snap = NoSnap
    /\ wlog = [i \in J |-> NoWrite]

Init == InitFor({1}, Window, AddrArgs, {})

----------------------------------------------------------------------------
(* Actions *)

\* Param(_addr): a new object takes the place of instance i
Param(i, A) ==
    /\ wpos = 0
    /\ arg' = [arg EXCEPT ![i] = A]
    /\ addr' = [addr EXCEPT ![i] = ToAddr(A)]
    /\ data' = [data EXCEPT ![i] = clear_data(data[i])]
    /\ wlog' = Track(i, NoWrite)
    /\ UNCHANGED <<EEPROM, win, wpos, snap>>
    /\ Log("Param", i, FALSE)

\* the caller assigns the public member data
SetData(i, v) ==
    /\ wpos = 0
    /\ data' = [data EXCEPT ![i] = v]
    /\ UNCHANGED <<EEPROM, addr, arg, win, wpos, snap, wlog>>
    /\ Log("set", i, FALSE)

clear(i) ==
    /\ wpos = 0
    /\ data' = [data EXCEPT ![i] = clear_data(data[i])]
    /\ EEPROM' = clear_mem(EEPROM, addr[i])
    /\ UNCHANGED <<addr, arg, win, wpos, snap, wlog>>
    /\ Log("clear", i, FALSE)

read(i) ==
    /\ wpos = 0
    /\ data' = [data EXCEPT ![i] = read_data(EEPROM, addr[i], data[i])]
    /\ UNCHANGED <<EEPROM, addr, arg, win, wpos, snap, wlog>>
    /\ Log("read", i, read_ret(EEPROM, addr[i], data[i]))

write(i) ==
    /\ wpos = 0
    /\ EEPROM' = write_mem(EEPROM, addr[i], data[i])
    /\ wlog' = Track(i, Wrote(data[i]))
    /\ UNCHANGED <<addr, data, arg, win, wpos, snap>>
    /\ Log("write", i, FALSE)

discard(i) ==
    /\ wpos = 0
    /\ EEPROM' = discard_mem(EEPROM, addr[i])
    /\ wlog' = Track(i, Discarded(wlog[i]))
    /\ UNCHANGED <<addr, data, arg, win, wpos, snap>>
    /\ Log("discard", i, FALSE)

Next ==
    \/ \E i \in ids : \E A \in AddrArgs : Param(i, A)
    \/ \E i \in ids : \E v \in Payloads : SetData(i, v)
    \/ \E i \in ids : clear(i)
    \/ \E i \in ids : read(i)
    \/ \E i \in ids : write(i)
    \/ \E i \in ids : discard(i)

Spec == Init /\ [][Next]_vars

\* one instance, a history of the last two calls and the record of its
\* most recent write and of its discards since
InitLog == InitFor({1}, 2, AddrArgs, {1})

SpecLog == InitLog /\ [][Next]_vars

----------------------------------------------------------------------------
(* Two instances in one medium; only the last call is remembered *)

InitTwo == InitFor({1, 2}, 1, AddrArgs, {})

SpecTwo == InitTwo /\ [][Next]_vars

----------------------------------------------------------------------------
(* Constructor arguments beyond the range of uint8_t *)

InitAddr == InitFor({1}, 1, WideArgs, {})

NextAddr ==
    \/ \E i \in ids : \E A \in WideArgs : Param(i, A)
    \/ \E i \in ids : \E v \in Payloads : SetData(i, v)
    \/ \E i \in ids : clear(i)
    \/ \E i \in ids : read(i)
    \/ \E i \in ids : write(i)
    \/ \E i \in ids : discard(i)

SpecAddr == InitAddr /\ [][NextAddr]_vars

----------------------------------------------------------------------------
(* The program before its first write or discard: the medium holds what   *)
(* it held when the program started                                       *)

NextRaw ==
    \/ \E i \in ids : \E A \in AddrArgs : Param(i, A)
    \/ \E i \in ids : \E v \in Payloads : SetData(i, v)
    \/ \E i \in ids : clear(i)
    \/ \E i \in ids : read(i)

SpecRaw == Init /\ [][NextRaw]_vars

----------------------------------------------------------------------------
(* Power loss during write: write makes its EEPROM stores one at a time   *)
(* (EEPROM.put stores sizeof(T) bytes, then EEPROM.write stores the CRC), *)
(* and the power can fail between any two of them.  wpos is the number of *)
(* the next store of the write in progress, 0 when there is none.  While  *)
(* a write is in progress snap holds the record stored when it began.     *)

write_begin(i) ==
    /\ wpos = 0
    /\ wpos' = 1
    /\ snap' = Stored(EEPROM, addr[i])
    /\ UNCHANGED <<EEPROM, addr, data, arg, hist, win, wlog>>

\* one byte store of EEPROM.put(addr, data)
write_put(i) ==
    /\ wpos \in 1..SizeofT
    /\ EEPROM' = EEPROM_write(EEPROM, addr[i] + PutIndex(wpos) - 1,
                              data[i][PutIndex(wpos)])
    /\ wpos' = wpos + 1
    /\ UNCHANGED <<addr, data, arg, hist, win, snap, wlog>>

\* EEPROM.write(addr + sizeof(data), crc.calc(&data, sizeof(data)))
write_crc(i) ==
    /\ wpos = SizeofT + 1
    /\ EEPROM' = EEPROM_write(EEPROM, CrcAt(addr[i]), crc8(data[i]))
    /\ wpos' = 0
    /\ snap' = NoSnap
    /\ wlog' = Track(i, Wrote(data[i]))
    /\ UNCHANGED <<addr, data, arg, win>>
    /\ Log("write", i, FALSE)

\* the power fails before the CRC is stored; after the restart the
\* instance is constructed again at the same address.  The entry of the
\* cut write: the payload it was writing (data), the record stored when
\* it began (pre) and the number of stores it made (cut)
PowerLoss(i) ==
    /\ wpos \in 1..(SizeofT + 1)
    /\ wpos' = 0
    /\ snap' = NoSnap
    /\ data' = [data EXCEPT ![i] = clear_data(data[i])]
    /\ wlog' = Track(i, NoWrite)
    /\ UNCHANGED <<EEPROM, addr, arg, win>>
    /\ hist' = Push(hist, [op |-> "powerloss", id |-> i, addr |-> addr[i],
                           ret |-> FALSE, data |-> data[i], pre |-> snap,
                           cut |-> wpos - 1])

InitCrash == InitFor({1}, 2, AddrArgs, {})

NextCrash ==
    \/ \E i \in ids : \E v \in CrashPayloads : SetData(i, v)
    \/ \E i \in ids : clear(i)
    \/ \E i \in ids : read(i)
    \/ \E i \in ids : discard(i)
    \/ \E i \in ids : write_begin(i)
    \/ \E i \in ids : write_put(i)
    \/ \E i \in ids : write_crc(i)
    \/ \E i \in ids : PowerLoss(i)

SpecCrash == InitCrash /\ [][NextCrash]_vars

----------------------------------------------------------------------------
(* Corruption of the medium behind the component's back: right after a    *)
(* write of a payload the caller assigned, one bit of one payload byte of *)
(* the written record changes.                                            *)

FlipBit(i, k, b) ==
    /\ wpos = 0
    /\ Last(<<"write">>)
    /\ H(1).id = i
    /\ H(1).data \in Payloads
    /\ EEPROM' = [EEPROM EXCEPT ![addr[i] + k - 1] = Xor(@, 2 ^ b)]
    /\ UNCHANGED <<addr, data, arg, win, wpos, snap, wlog>>
    /\ Log("flip", i, FALSE)

NextCorrupt ==
    \/ \E i \in ids : \E v \in Payloads : SetData(i, v)
    \/ \E i \in ids : clear(i)
    \/ \E i \in ids : read(i)
    \/ \E i \in ids : write(i)
    \/ \E i \in ids : discard(i)
    \/ \E i \in ids : \E k \in 1..SizeofT : \E b \in Bits : FlipBit(i, k, b)

InitCorrupt == InitFor({1}, 2, AddrArgs, {})

SpecCorrupt == InitCorrupt /\ [][NextCorrupt]_vars

----------------------------------------------------------------------------
(* Properties *)

\* the record an entry found stored carried a matching CRC byte
PreValid(e) == crc8(e.pre.pay) = e.pre.sum

\* the last call of a step's new history was made by instance i and is
\* one of write, read, discard and clear
Acted(i) ==
    /\ hist' # <<>>
    /\ hist'[Len(hist')].id = i
    /\ hist'[Len(hist')].op \in {"write", "read", "discard", "clear"}

\* the record with payload v and its CRC byte
Valid(v) == [pay |-> v, sum |-> crc8(v)]

\* C1: a read that directly follows a write at the same address, by the
\* writing instance or by an instance constructed at that address after the
\* write, returns true and loads the payload that was written, whatever
\* the medium held before the write.
RoundTrip ==
    /\ Last(<<"write", "read">>) /\ SameAddr(2)
         => H(1).ret /\ H(1).data = H(2).data
    /\ Last(<<"write", "Param", "read">>) /\ SameAddr(3)
         => H(1).ret /\ H(1).data = H(3).data

\* C1 witness: a non-zero payload written over a record whose CRC byte did
\* not match, then read back by a newly constructed instance
RoundTripWitness ==
    /\ Last(<<"write", "Param", "read">>) /\ SameAddr(3)
    /\ H(3).data = PolyLow
    /\ ~PreValid(H(3))
    /\ H(3).pre.pay # PolyLow
    /\ H(1).ret /\ H(1).data = PolyLow

\* C2: after write, then one discard, the next read returns false.
DiscardInvalidates ==
    Last(<<"write", "discard", "read">>) /\ SameId(3) => ~H(1).ret

\* C2 witness: write of a non-zero payload, discard, and a read that
\* returned false although it loaded the written payload
DiscardInvalidatesWitness ==
    /\ Last(<<"write", "discard", "read">>) /\ SameId(3)
    /\ H(3).data = PolyLow
    /\ H(1).data = PolyLow
    /\ ~H(1).ret

\* C3: a clear leaves the working copy all zero and changes no byte of the
\* medium; a read after the clear returns what the read before the clear
\* returned and loads the same payload, and after write, clear the read
\* loads the written payload.
ClearSemantics ==
    /\ [][\A i \in ids :
            Acted(i) /\ hist'[Len(hist')].op = "clear"
              => data'[i] = Zero /\ EEPROM' = EEPROM]_vars
    /\ [](Last(<<"read", "clear", "read">>) /\ SameId(3)
            => H(1).ret = H(3).ret /\ H(1).data = H(3).data)
    /\ [](Last(<<"write", "clear", "read">>) /\ SameId(3)
            => H(1).ret /\ H(1).data = H(3).data)

\* C3 witness: a read that loaded a valid non-zero payload, a clear that
\* left the working copy zero, and a read that loaded the payload again
ClearSemanticsWitness ==
    /\ Last(<<"read", "clear", "read">>) /\ SameId(3)
    /\ H(3).ret /\ H(3).data = PolyLow
    /\ H(2).data = Zero
    /\ H(1).ret /\ H(1).data = PolyLow

\* the records of instances at addresses a and b, size() bytes each, do not
\* overlap
Disjoint(a, b) == a + size <= b \/ b + size <= a

\* a write, read, discard or clear of one instance changes neither the
\* medium bytes of an instance laid out size() bytes away, nor that
\* instance's working copy, nor what its next read returns and loads
IndependentSteps ==
    [][\A i, j \in ids :
         i # j /\ Disjoint(addr[i], addr[j]) /\ Acted(i)
           => /\ \A c \in Range(addr[j]) : EEPROM'[c] = EEPROM[c]
              /\ data'[j] = data[j]
              /\ read_ret(EEPROM', addr[j], data'[j])
                   = read_ret(EEPROM, addr[j], data[j])
              /\ read_data(EEPROM', addr[j], data'[j])
                   = read_data(EEPROM, addr[j], data[j])]_vars

\* C4: size() is sizeof(T) + 1, and a write, read, discard or clear of one
\* instance changes neither the medium bytes of an instance laid out
\* size() bytes away, nor that instance's working copy, nor what its next
\* read returns and loads.
Independence == [](size = SizeofT + 1) /\ IndependentSteps

\* C4 witness: instance 1 at address 0 has just written a zero payload
\* while instance 2 at address size() holds and has stored a valid
\* non-zero payload
IndependenceWitness ==
    /\ Last(<<"write">>) /\ H(1).id = 1 /\ H(1).data = Zero
    /\ addr[1] = 0 /\ addr[2] = size
    /\ data[2] = PolyLow
    /\ Stored(EEPROM, addr[2]) = Valid(PolyLow)
    /\ Stored(EEPROM, addr[1]) = Valid(Zero)

ReadBeforeWriteFails == Last(<<"read">>) => ~H(1).ret

\* C6 amended: a read of a medium the component never wrote returns false
\* exactly if the byte at addr + sizeof(T) differs from the crc8 of the
\* sizeof(T) bytes from addr, and it loads those bytes.
ReadBeforeWriteDecided ==
    Last(<<"read">>)
      => /\ H(1).ret
              = (EEPROM[H(1).addr + SizeofT]
                   = crc8([k \in 1..SizeofT |-> EEPROM[H(1).addr + k - 1]]))
         /\ H(1).data = [k \in 1..SizeofT |-> EEPROM[H(1).addr + k - 1]]

\* C6 witness: a read at address 0 of a never-written medium that
\* returned true, and the bytes it found
ReadBeforeWriteWitness ==
    /\ Last(<<"read">>)
    /\ H(1).addr = 0
    /\ H(1).ret
    /\ EEPROM[SizeofT] = crc8(EEPROM_get(EEPROM, 0))

\* the payload in the medium after the first k byte stores of a write of
\* new over old
Hybrid(old, new, k) ==
    [j \in 1..SizeofT |-> IF j <= k THEN new[j] ELSE old[j]]

\* C7 as stated: after a write over a valid record was cut before its CRC
\* store, a read does not return true with a payload that is neither the
\* old nor the new one.
InterruptedWriteRejected ==
    Last(<<"powerloss", "read">>) /\ SameId(2) /\ PreValid(H(2))
      => ~(H(1).ret /\ H(1).data \notin {H(2).pre.pay, H(2).data})

\* C7 amended: after a write over a valid record was cut after k of its
\* byte stores, before its CRC store, a read loads the first k bytes of
\* the new payload followed by the other bytes of the old one, and returns
\* true exactly if the crc8 of these bytes is the old CRC byte.
InterruptedWriteDecided ==
    Last(<<"powerloss", "read">>) /\ SameId(2) /\ PreValid(H(2))
      => /\ H(1).data = Hybrid(H(2).pre.pay, H(2).data, H(2).cut)
         /\ H(1).ret = (crc8(H(1).data) = H(2).pre.sum)

\* C7 witness: a write of the all-zero payload over the valid record
\* 01 07 .. 01, cut after two byte stores, and a read that returned true
\* with 00 00 .. 01
InterruptedWriteWitness ==
    /\ Last(<<"powerloss", "read">>) /\ SameId(2) /\ PreValid(H(2))
    /\ H(2).pre.pay = PolyHigh /\ H(2).data = Zero /\ H(2).cut = 2
    /\ H(1).ret
    /\ H(1).data = [Zero EXCEPT ![SizeofT] = 1]

\* C8: after a write, a change of one bit of one payload byte of the stored
\* record makes the next read return false.
CorruptionDetected ==
    Last(<<"flip", "read">>) /\ SameId(2) /\ PreValid(H(2)) => ~H(1).ret

\* C8 witness: the highest bit of the last byte of the written non-zero
\* payload changed, and the read loaded the changed payload and returned
\* false
CorruptionDetectedWitness ==
    /\ Last(<<"flip", "read">>) /\ SameId(2)
    /\ H(2).pre = Valid(PolyLow)
    /\ H(1).data = [PolyLow EXCEPT ![SizeofT] = 128]
    /\ ~H(1).ret

\* C9 as stated: a write of an instance constructed with address A stores
\* the payload at offsets A .. A+sizeof(T)-1 and the CRC at A+sizeof(T).
AddressHonoured ==
    Last(<<"write">>)
      => Stored(EEPROM, arg[H(1).id]) = Valid(H(1).data)

\* C10: clear, write issued on a record whose CRC byte does not match
\* leave sizeof(T) zero bytes and their crc8 in the medium, and the next
\* read returns true with an all-zero working copy.
Recovery ==
    Last(<<"clear", "write", "read">>) /\ SameId(3) /\ ~PreValid(H(3))
      => /\ H(1).ret
         /\ H(1).data = Zero
         /\ Stored(EEPROM, H(1).addr) = Valid(Zero)

\* C10 witness: the record found by the clear held a non-zero payload and
\* a CRC byte that did not match, the working copy held the same payload
\* before the clear, and the read after clear, write returned true
RecoveryWitness ==
    /\ Last(<<"clear", "write", "read">>) /\ SameId(3)
    /\ ~PreValid(H(3))
    /\ H(3).pre.pay = PolyLow
    /\ H(1).ret /\ H(1).data = Zero
    /\ Stored(EEPROM, H(1).addr) = Valid(Zero)

\* the step is a call op of instance i
Called(op, i) == Acted(i) /\ hist'[Len(hist')].op = op

\* C11: write leaves the working copy in the medium bytes addr ..
\* addr+sizeof(T)-1 and its crc8 in the byte addr+sizeof(T), changes no
\* other medium byte and no working copy; no write is ever in progress
\* between calls, and whatever the working copy holds, a write of it
\* leaves it stored with its crc8.
WriteEffect ==
    /\ [][\A i \in ids :
            Called("write", i)
              => /\ \A k \in 1..SizeofT : EEPROM'[addr[i] + k - 1] = data[i][k]
                 /\ EEPROM'[addr[i] + SizeofT] = crc8(data[i])
                 /\ \A c \in Cells \ (addr[i] .. addr[i] + SizeofT) :
                       EEPROM'[c] = EEPROM[c]
                 /\ data' = data]_vars
    /\ [](\A i \in ids :
            /\ wpos = 0
            /\ Stored(write_mem(EEPROM, addr[i], data[i]), addr[i])
                 = Valid(data[i]))

\* C11 witness: a write of a non-zero payload over a record with another
\* payload and a CRC byte unlike the one now stored
WriteEffectWitness ==
    /\ Last(<<"write">>)
    /\ H(1).data = PolyLow
    /\ H(1).pre.pay # PolyLow
    /\ H(1).pre.sum # crc8(PolyLow)
    /\ Stored(EEPROM, H(1).addr) = Valid(PolyLow)

\* C12: read changes no medium byte; it leaves the medium bytes addr ..
\* addr+sizeof(T)-1 in the working copy whatever it returns, and returns
\* true exactly if the byte at addr+sizeof(T) is the crc8 of those bytes,
\* whatever the working copy held before.
ReadEffect ==
    [][\A i \in ids :
         Called("read", i)
           => /\ EEPROM' = EEPROM
              /\ data'[i] = [k \in 1..SizeofT |-> EEPROM[addr[i] + k - 1]]
              /\ hist'[Len(hist')].ret
                   = (EEPROM[addr[i] + SizeofT]
                        = crc8([k \in 1..SizeofT |-> EEPROM[addr[i] + k - 1]]))]_vars

\* C12 witness: the caller had assigned a non-zero working copy whose
\* crc8 is the stored CRC byte; the read returned false and replaced the
\* working copy by the stored bytes, which differ from it
ReadEffectWitness ==
    /\ Last(<<"set", "read">>) /\ SameId(2)
    /\ H(2).data = PolyLow
    /\ crc8(H(2).data) = EEPROM[H(1).addr + SizeofT]
    /\ ~H(1).ret
    /\ H(1).data = EEPROM_get(EEPROM, H(1).addr)
    /\ H(1).data # PolyLow

\* C13: discard replaces the byte at addr+sizeof(T) by its 8-bit
\* complement and changes no other medium byte and no working copy.
DiscardEffect ==
    [][\A i \in ids :
         Called("discard", i)
           => /\ EEPROM'[addr[i] + SizeofT] = 255 - EEPROM[addr[i] + SizeofT]
              /\ \A c \in Cells \ {addr[i] + SizeofT} : EEPROM'[c] = EEPROM[c]
              /\ data' = data]_vars

\* C13 witness: a discard of a valid non-zero record while the working
\* copy holds another payload
DiscardEffectWitness ==
    /\ Last(<<"discard">>)
    /\ H(1).pre = Valid(PolyLow)
    /\ Stored(EEPROM, H(1).addr)
         = [pay |-> PolyLow, sum |-> 255 - crc8(PolyLow)]
    /\ H(1).data = Zero

====
